---- MODULE Spec2Model ----
(***************************************************************************)
(* A model of the Mousetrap keyboard-shortcut engine (src/mousetrap.jsx):  *)
(* the combination parser, the binding registry, the sequence state        *)
(* machine and the event dispatcher.                                       *)
(*                                                                         *)
(* Representation.                                                         *)
(*  - A combo text is a sequence of tokens: key names ("g", "ctrl", "?")   *)
(*    and the two separator characters " " and "+".  "ctrl+s" is           *)
(*    <<"ctrl","+","s">>, "g i" is <<"g"," ","i">>.  Splitting on          *)
(*    whitespace and on "+" is computed on the tokens.                     *)
(*  - A modifiers array is a bag of modifier names: the code reads such an *)
(*    array only through sort().join(',') and .length.                     *)
(*  - JavaScript's undefined / false / null are the strings below; the     *)
(*    characters \, " and the backtick are named.                          *)
(*  - A TypeError raised inside the engine ends the running handler at the *)
(*    point it is raised; what was assigned before stays assigned.         *)
(***************************************************************************)
EXTENDS Integers, Sequences, FiniteSets, Bags, TLC

Undefined == "undefined"
JsFalse == "false"

Modifiers == {"shift", "ctrl", "alt", "meta"}
Actions == {"keypress", "keydown", "keyup"}

(***************************************************************************)
(* Static tables                                                           *)
(***************************************************************************)

\* _MAP as the class body writes it (lines 9-13), before staticConstructor.
MapLiteral ==
    [c \in {8, 9, 13, 16, 17, 18, 20, 27, 32, 33, 34, 35, 36, 37, 38, 39, 40,
            45, 46, 91, 93, 224} |->
        CASE c = 8 -> "backspace" [] c = 9 -> "tab" [] c = 13 -> "enter"
          [] c = 16 -> "shift" [] c = 17 -> "ctrl" [] c = 18 -> "alt"
          [] c = 20 -> "capslock" [] c = 27 -> "esc" [] c = 32 -> "space"
          [] c = 33 -> "pageup" [] c = 34 -> "pagedown" [] c = 35 -> "end"
          [] c = 36 -> "home" [] c = 37 -> "left" [] c = 38 -> "up"
          [] c = 39 -> "right" [] c = 40 -> "down" [] c = 45 -> "ins"
          [] c = 46 -> "del" [] c = 91 -> "meta" [] c = 93 -> "meta"
          [] c = 224 -> "meta"]

\* staticConstructor: f1..f19 at 112..130 and the numeric keypad at 96..105.
staticConstructor(map) ==
    [c \in DOMAIN map \cup (112..130) \cup (96..105) |->
        IF c \in 96..105 THEN ToString(c - 96)
        ELSE IF c \in 112..130 THEN "f" \o ToString(c - 111)
        ELSE map[c]]

KEYCODE_MAP ==
    [c \in {106, 107, 109, 110, 111, 186, 187, 188, 189, 190, 191, 192, 219,
            220, 221, 222} |->
        CASE c = 106 -> "*" [] c = 107 -> "+" [] c = 109 -> "-" [] c = 110 -> "."
          [] c = 111 -> "/" [] c = 186 -> ";" [] c = 187 -> "=" [] c = 188 -> ","
          [] c = 189 -> "-" [] c = 190 -> "." [] c = 191 -> "/" [] c = 192 -> "backtick"
          [] c = 219 -> "[" [] c = 220 -> "backslash" [] c = 221 -> "]" [] c = 222 -> "'"]

SHIFT_MAP ==
    [k \in {"~", "!", "@", "#", "$", "%", "^", "&", "*", "(", ")", "_", "+",
            ":", "dquote", "<", ">", "?", "|"} |->
        CASE k = "~" -> "backtick" [] k = "!" -> "1" [] k = "@" -> "2" [] k = "#" -> "3"
          [] k = "$" -> "4" [] k = "%" -> "5" [] k = "^" -> "6" [] k = "&" -> "7"
          [] k = "*" -> "8" [] k = "(" -> "9" [] k = ")" -> "0" [] k = "_" -> "-"
          [] k = "+" -> "=" [] k = ":" -> ";" [] k = "dquote" -> "'" [] k = "<" -> ","
          [] k = ">" -> "." [] k = "?" -> "/" [] k = "|" -> "backslash"]

\* _SPECIAL_ALIASES; mac is the outcome of the navigator.platform test.
SPECIAL_ALIASES(mac) ==
    [k \in {"option", "command", "return", "escape", "plus", "mod"} |->
        CASE k = "option" -> "alt" [] k = "command" -> "meta"
          [] k = "return" -> "enter" [] k = "escape" -> "esc"
          [] k = "plus" -> "+" [] k = "mod" -> IF mac THEN "meta" ELSE "ctrl"]

(***************************************************************************)
(* Characters                                                              *)
(***************************************************************************)

Lower == <<"a", "b", "c", "d", "e", "f", "g", "h", "i", "j", "k", "l", "m",
           "n", "o", "p", "q", "r", "s", "t", "u", "v", "w", "x", "y", "z">>
Upper == <<"A", "B", "C", "D", "E", "F", "G", "H", "I", "J", "K", "L", "M",
           "N", "O", "P", "Q", "R", "S", "T", "U", "V", "W", "X", "Y", "Z">>

\* String.fromCharCode on the codes the model's events use; any other code
\* is the one-character string written "U+<code>".
fromCharCode(c) ==
    IF c \in 97..122 THEN Lower[c - 96]
    ELSE IF c \in 65..90 THEN Upper[c - 64]
    ELSE IF c \in 48..57 THEN ToString(c - 48)
    ELSE CASE c = 47 -> "/" [] c = 63 -> "?" [] c = 43 -> "+" [] c = 42 -> "*"
           [] OTHER -> "U+" \o ToString(c)

toLowerCase(s) ==
    IF \E i \in 1..26 : Upper[i] = s
    THEN Lower[CHOOSE i \in 1..26 : Upper[i] = s]
    ELSE s

isModifier(key) == key = "shift" \/ key = "ctrl" \/ key = "alt" \/ key = "meta"

(***************************************************************************)
(* Combination parser                                                      *)
(***************************************************************************)

\* combination.replace(/\s+/g, ' '): a run of whitespace becomes one space.
RECURSIVE collapseSpaces(_)
collapseSpaces(text) ==
    IF Len(text) < 2 THEN text
    ELSE IF text[1] = " " /\ text[2] = " " THEN collapseSpaces(Tail(text))
    ELSE <<text[1]>> \o collapseSpaces(Tail(text))

\* String.prototype.split(sep) for a one-character separator: the pieces
\* between the separators, empty pieces included.
RECURSIVE split(_, _)
split(text, sep) ==
    IF \A i \in 1..Len(text) : text[i] # sep THEN <<text>>
    ELSE LET i == CHOOSE j \in 1..Len(text) :
                      text[j] = sep /\ \A k \in 1..(j - 1) : text[k] # sep
         IN  <<SubSeq(text, 1, i - 1)>> \o split(SubSeq(text, i + 1, Len(text)), sep)

\* combination.replace(/\+{2}/g, '+plus'), left to right, without overlap.
RECURSIVE replacePlusPlus(_)
replacePlusPlus(text) ==
    IF Len(text) < 2 THEN text
    ELSE IF text[1] = "+" /\ text[2] = "+"
         THEN <<"+", "plus">> \o replacePlusPlus(SubSeq(text, 3, Len(text)))
    ELSE <<text[1]>> \o replacePlusPlus(Tail(text))

\* The string a piece between separators spells: the empty string or one name.
nameOf(piece) == IF piece = <<>> THEN "" ELSE piece[1]

keysFromString(combination) ==
    IF combination = <<"+">> THEN <<"+">>
    ELSE LET pieces == split(replacePlusPlus(combination), "+")
         IN  [i \in 1..Len(pieces) |-> nameOf(pieces[i])]

\* #getReverseMap's loop: _MAP flipped, the numeric keypad left out.  The
\* value kept for a name is the last one assigned (the largest code).
buildReverseMap(map) ==
    LET codes == {c \in DOMAIN map : ~(c > 95 /\ c < 112)}
    IN  [n \in {map[c] : c \in codes} |->
            CHOOSE c \in codes : map[c] = n /\ \A d \in codes : map[d] = n => d <= c]

\* #getReverseMap: the cached table, built only when the cache is null.
getReverseMap(S) ==
    IF S._REVERSE_MAP.isNull
    THEN [isNull |-> FALSE, table |-> buildReverseMap(S._MAP)]
    ELSE S._REVERSE_MAP

\* A choice that keeps key-press whatever the modifiers.
pickBestActionAsAsked(key, modifiers, action, reverse) ==
    IF action # Undefined THEN action
    ELSE IF key \in DOMAIN reverse.table THEN "keydown" ELSE "keypress"

\* #pickBestAction; reverse is what #getReverseMap returns.
pickBestAction(key, modifiers, action, reverse) ==
    LET picked == IF action = Undefined
                  THEN (IF key \in DOMAIN reverse.table THEN "keydown" ELSE "keypress")
                  ELSE action
    IN  IF picked = "keypress" /\ BagCardinality(modifiers) > 0 THEN "keydown"
        ELSE picked

\* The loop of #getKeyInfo over keys[i..]: the running key and modifiers.
RECURSIVE keyInfoLoop(_, _, _, _, _, _)
keyInfoLoop(keys, i, key, modifiers, action, mac) ==
    IF i > Len(keys) THEN [key |-> key, modifiers |-> modifiers]
    ELSE LET k1 == IF keys[i] \in DOMAIN SPECIAL_ALIASES(mac)
                   THEN SPECIAL_ALIASES(mac)[keys[i]] ELSE keys[i]
             shifted == action # Undefined /\ action # "keypress"
                        /\ k1 \in DOMAIN SHIFT_MAP
             k2 == IF shifted THEN SHIFT_MAP[k1] ELSE k1
             m1 == IF shifted THEN modifiers (+) SetToBag({"shift"}) ELSE modifiers
             m2 == IF isModifier(k2) THEN m1 (+) SetToBag({k2}) ELSE m1
         IN  keyInfoLoop(keys, i + 1, k2, m2, action, mac)

\* #getKeyInfo(combination, action) -> {key, modifiers, action}.
getKeyInfo(S, combination, action) ==
    LET r == keyInfoLoop(keysFromString(combination), 1, Undefined, EmptyBag,
                         action, S.mac)
    IN  [key |-> r.key, modifiers |-> r.modifiers,
         action |-> pickBestAction(r.key, r.modifiers, action, getReverseMap(S))]

(***************************************************************************)
(* Engine state.  The operators below take and return the whole state as a *)
(* record S whose fields are the variables of the same names.              *)
(***************************************************************************)

VARIABLES
    _callbacks,          \* canonical key -> list of bindings
    _directMap,          \* <<combo text, action argument>> -> callback
    _sequenceLevels,     \* sequence label -> level
    _nextExpectedAction, \* an action, or JsFalse
    _ignoreNextKeyup,    \* a character, or JsFalse
    _ignoreNextKeypress, \* BOOLEAN
    mouseTrapEnabled,    \* BOOLEAN
    _MAP,                \* static: key code -> key name
    _REVERSE_MAP,        \* static: [isNull, table], the cache of #getReverseMap
    timers,              \* the handlers of the pending setTimeout calls
    fired,               \* observer: user callbacks invoked by the last step
    threw,               \* observer: the last step ended with a TypeError
    last,                \* observer: the last step, and its event if it has one
    calls,               \* observer: the number of API calls made so far
    everBound,           \* observer: the <<keys, fn, action>> bind was called with
    host                 \* the name of the host page (see Hosts)

vars == <<_callbacks, _directMap, _sequenceLevels, _nextExpectedAction,
          _ignoreNextKeyup, _ignoreNextKeypress, mouseTrapEnabled, _MAP,
          _REVERSE_MAP, timers, fired, threw, last, calls,
          everBound, host>>

\* The text that stands for an absent combination or sequence name.
NoText == <<Undefined>>
NoLevel == 0 - 1

\* A callback value: a function the host supplied (fn; "noop" is the empty
\* function unbind supplies), or one of the two closures of #bindSequence.
UserFn(fn) == [kind |-> "fn", fn |-> fn, seq |-> NoText, arg |-> Undefined]
IncreaseSequence(combo, nextAction) ==
    [kind |-> "increase", fn |-> Undefined, seq |-> combo, arg |-> nextAction]
CallbackAndReset(combo, fn, action) ==
    [kind |-> "complete", fn |-> fn, seq |-> combo, arg |-> action]

\* The event object {} that trigger passes.
EmptyEvent ==
    [type |-> Undefined, which |-> 0, shiftKey |-> FALSE, altKey |-> FALSE,
     ctrlKey |-> FALSE, metaKey |-> FALSE, target |-> Undefined]

\* #characterFromEvent.  For {} both table lookups miss and
\* String.fromCharCode(undefined) is the character of code 0.
characterFromEvent(S, e) ==
    IF e.type = "keypress"
    THEN (IF ~e.shiftKey THEN toLowerCase(fromCharCode(e.which))
          ELSE fromCharCode(e.which))
    ELSE IF e.which \in DOMAIN S._MAP /\ S._MAP[e.which] # ""
         THEN S._MAP[e.which]
    ELSE IF e.which \in DOMAIN KEYCODE_MAP THEN KEYCODE_MAP[e.which]
    ELSE toLowerCase(fromCharCode(e.which))

\* #eventModifiers
eventModifiers(e) ==
    (IF e.shiftKey THEN SetToBag({"shift"}) ELSE EmptyBag)
    (+) (IF e.altKey THEN SetToBag({"alt"}) ELSE EmptyBag)
    (+) (IF e.ctrlKey THEN SetToBag({"ctrl"}) ELSE EmptyBag)
    (+) (IF e.metaKey THEN SetToBag({"meta"}) ELSE EmptyBag)

\* A comparison that lets extra modifiers of the event pass.
modifiersMatchAtLeast(modifiers1, modifiers2) ==
    \A m \in DOMAIN modifiers2 :
        m \in DOMAIN modifiers1 /\ modifiers1[m] >= modifiers2[m]

\* #modifiersMatch: the sorted arrays joined are equal, that is, the arrays
\* hold the same names the same number of times.
modifiersMatch(modifiers1, modifiers2) == modifiers1 = modifiers2

\* A suppression policy that does not look at mouseTrapEnabled.
stopCallbackWhilePaused(S, e, element) ==
    IF element = Undefined THEN "throw"
    ELSE IF element = "mousetrap" THEN "go"
    ELSE IF element = "editable" THEN "stop"
    ELSE "go"

\* stopCallback(event, element): "stop", "go", or "throw" when element is
\* undefined and className is read from it.  The targets of the model are
\* "plain", "editable" (contentEditable == 'true') and "mousetrap" (editable,
\* with the class mousetrap).
stopCallback(S, e, element) ==
    IF ~S.mouseTrapEnabled THEN "stop"
    ELSE IF element = Undefined THEN "throw"
    ELSE IF element = "mousetrap" THEN "go"
    ELSE IF element = "editable" THEN "stop"
    ELSE "go"

\* A reset that leaves the expected next action as it is.
resetSequencesOnly(S, doNotReset) ==
    [S EXCEPT !._sequenceLevels =
                  [key \in DOMAIN S._sequenceLevels |->
                      IF key \in doNotReset THEN S._sequenceLevels[key] ELSE 0]]

\* #resetSequences(doNotReset)
resetSequences(S, doNotReset) ==
    LET activeSequences == \E key \in DOMAIN S._sequenceLevels : key \in doNotReset
        levels == [key \in DOMAIN S._sequenceLevels |->
                      IF key \in doNotReset THEN S._sequenceLevels[key] ELSE 0]
    IN  [S EXCEPT !._sequenceLevels = levels,
                  !._nextExpectedAction =
                      IF ~activeSequences THEN JsFalse ELSE @]

\* callback(e, combo) for a host function: the invocation is recorded.  The
\* host functions of the model return undefined.
callUser(S, fn, combo) ==
    IF fn = "noop" THEN S
    ELSE [S EXCEPT !.fired = Append(@, [fn |-> fn, combo |-> combo])]

\* The closure _increaseSequence(nextAction) returns (lines 391-395).  Its
\* last statement calls self._resetSequenceTimer, which no object has (the
\* method is the private #resetSequenceTimer): a TypeError, after the two
\* assignments.  No inactivity timer is ever started.
increaseSequence(S, cb) ==
    [S EXCEPT !._nextExpectedAction = cb.arg,
              !._sequenceLevels[cb.seq] = @ + 1,
              !.threw = TRUE]

RECURSIVE fireCallback(_, _, _, _)

\* _callbackAndReset(e) (lines 402-413).  self._resetSequences is undefined
\* (the method is the private #resetSequences): setTimeout(undefined, 10)
\* schedules a handler that does nothing when it runs.
callbackAndReset(S, cb, e) ==
    LET S1 == fireCallback(S, UserFn(cb.fn), e, cb.seq)
        S2 == IF cb.arg # "keyup"
              THEN [S1 EXCEPT !._ignoreNextKeyup = characterFromEvent(S1, e)]
              ELSE S1
    IN  IF S1.threw THEN S1
        ELSE [S2 EXCEPT !.timers = @ \cup {"undefined"}]

\* callback(e, combo), whatever the callback is.
invoke(S, cb, e, combo) ==
    CASE cb.kind = "fn" -> callUser(S, cb.fn, combo)
      [] cb.kind = "increase" -> increaseSequence(S, cb)
      [] cb.kind = "complete" -> callbackAndReset(S, cb, e)

\* _fireCallback(callback, e, combo, sequence)
fireCallback(S, cb, e, combo) ==
    LET stop == stopCallback(S, e, e.target)
    IN  IF stop = "throw" THEN [S EXCEPT !.threw = TRUE]
        ELSE IF stop = "stop" THEN S
        ELSE invoke(S, cb, e, combo)

(***************************************************************************)
(* Matching and dispatch                                                   *)
(***************************************************************************)

RemoveAt(list, i) == SubSeq(list, 1, i - 1) \o SubSeq(list, i + 1, Len(list))

\* A removal test that does not look at the combination text.
deleteComboAlways(sequenceName, callback, combination) == sequenceName = NoText

\* var deleteCombo = !sequenceName && callback.combo == combination
deleteCombo(sequenceName, callback, combination) ==
    sequenceName = NoText /\ callback.combo = combination

\* The loop of #getMatches (lines 216-247) over this._callbacks[character],
\* here list, from index i on.  splice(i, 1) removes the entry under the
\* running index, and the ++i that follows steps over the entry that moved
\* into its place.
RECURSIVE getMatchesLoop(_, _, _, _, _, _, _, _, _)
getMatchesLoop(S, list, i, matches, modifiers, e, sequenceName, combination, level) ==
    IF i > Len(list) THEN [matches |-> matches, list |-> list]
    ELSE
      LET callback == list[i]
          action == e.type
          wrongLevel ==
              /\ sequenceName = NoText
              /\ callback.seq # NoText
              /\ \/ callback.seq \notin DOMAIN S._sequenceLevels
                 \/ S._sequenceLevels[callback.seq] # callback.level
          matched ==
              \/ action = "keypress" /\ ~e.metaKey /\ ~e.ctrlKey
              \/ modifiersMatch(modifiers, callback.modifiers)
          deleteSequence == /\ sequenceName # NoText
                            /\ callback.seq = sequenceName
                            /\ callback.level = level
      IN  IF wrongLevel \/ action # callback.action \/ ~matched
          THEN getMatchesLoop(S, list, i + 1, matches, modifiers, e,
                              sequenceName, combination, level)
          ELSE getMatchesLoop(S,
                              IF \/ deleteCombo(sequenceName, callback, combination)
                                 \/ deleteSequence
                              THEN RemoveAt(list, i) ELSE list,
                              i + 1, Append(matches, callback), modifiers, e,
                              sequenceName, combination, level)

\* #getMatches: the matches, and this._callbacks[character] as the call
\* leaves it.
getMatches(S, character, modifiers, e, sequenceName, combination, level) ==
    IF character \notin DOMAIN S._callbacks
    THEN [matches |-> <<>>, list |-> <<>>]
    ELSE getMatchesLoop(S, S._callbacks[character], 1, <<>>,
                        IF e.type = "keyup" /\ isModifier(character)
                        THEN SetToBag({character}) ELSE modifiers,
                        e, sequenceName, combination, level)

Max(a, b) == IF a >= b THEN a ELSE b

\* A maximum that is never raised above its initial value.
maxLevelUnraised(callbacks, i) == 0

\* The first loop of handleKey (lines 282-284).
RECURSIVE maxLevelOf(_, _)
maxLevelOf(callbacks, i) ==
    IF i > Len(callbacks) THEN 0
    ELSE IF callbacks[i].seq # NoText
         THEN Max(callbacks[i].level, maxLevelOf(callbacks, i + 1))
         ELSE maxLevelOf(callbacks, i + 1)

\* The second loop of handleKey (lines 287-313), from index i on.  A
\* TypeError out of _fireCallback ends the loop and the handler.
RECURSIVE fireLoop(_, _, _, _, _, _, _)
fireLoop(S, callbacks, i, maxLevel, processedSequenceCallback, doNotReset, e) ==
    IF i > Len(callbacks) \/ S.threw
    THEN [S |-> S, processedSequenceCallback |-> processedSequenceCallback,
          doNotReset |-> doNotReset]
    ELSE
      LET c == callbacks[i]
      IN  IF c.seq # NoText
          THEN IF c.level # maxLevel
               THEN fireLoop(S, callbacks, i + 1, maxLevel,
                             processedSequenceCallback, doNotReset, e)
               ELSE fireLoop(fireCallback(S, c.callback, e, c.combo), callbacks,
                             i + 1, maxLevel, TRUE, doNotReset \cup {c.seq}, e)
          ELSE IF ~processedSequenceCallback
               THEN fireLoop(fireCallback(S, c.callback, e, c.combo), callbacks,
                             i + 1, maxLevel, processedSequenceCallback,
                             doNotReset, e)
               ELSE fireLoop(S, callbacks, i + 1, maxLevel,
                             processedSequenceCallback, doNotReset, e)

\* handleKey(character, modifiers, e)
handleKey(S, character, modifiers, e) ==
    LET found == getMatches(S, character, modifiers, e, NoText, NoText, NoLevel)
        callbacks == found.matches
        S0 == IF character \in DOMAIN S._callbacks
              THEN [S EXCEPT !._callbacks[character] = found.list] ELSE S
        r == fireLoop(S0, callbacks, 1, maxLevelOf(callbacks, 1), FALSE, {}, e)
        ignoreThisKeypress == e.type = "keypress" /\ r.S._ignoreNextKeypress
        S1 == IF /\ e.type = r.S._nextExpectedAction
                 /\ ~isModifier(character)
                 /\ ~ignoreThisKeypress
              THEN resetSequences(r.S, r.doNotReset)
              ELSE r.S
    IN  IF r.S.threw THEN r.S
        ELSE [S1 EXCEPT !._ignoreNextKeypress =
                            r.processedSequenceCallback /\ e.type = "keydown"]

\* A handler that drops no key-up.
handleKeyEventWithoutDrop(S, e) ==
    handleKey(S, characterFromEvent(S, e), eventModifiers(e), e)

\* #handleKeyEvent(e).  The events of the model carry a numeric which.
handleKeyEvent(S, e) ==
    LET character == characterFromEvent(S, e)
    IN  IF character = "" THEN S
        ELSE IF e.type = "keyup" /\ S._ignoreNextKeyup = character
             THEN [S EXCEPT !._ignoreNextKeyup = JsFalse]
        ELSE handleKey(S, character, eventModifiers(e), e)

(***************************************************************************)
(* Binding                                                                 *)
(***************************************************************************)

\* object[key] = value
\* A write that keeps the value a key already has.
PutIfAbsent(object, key, value) ==
    [k \in DOMAIN object \cup {key} |->
        IF k \in DOMAIN object THEN object[k] ELSE value]

Put(object, key, value) ==
    [k \in DOMAIN object \cup {key} |-> IF k = key THEN value ELSE object[k]]

\* An insertion that always appends.
addEntryAtEnd(list, entry, sequenceName) == Append(list, entry)

\* this._callbacks[info.key][sequenceName ? 'unshift' : 'push'](entry)
addEntry(list, entry, sequenceName) ==
    IF sequenceName # NoText THEN <<entry>> \o list ELSE Append(list, entry)

RECURSIVE bindSequenceLoop(_, _, _, _, _, _)

\* _bindSingle(combination, callback, action, sequenceName, level).  A call
\* of #getKeyInfo without an action goes through #getReverseMap, which
\* fills the cache when it is null.
bindSingle(S, combination, callback, action, sequenceName, level) ==
    LET S1 == [S EXCEPT !._directMap = Put(@, <<combination, action>>, callback)]
        collapsed == collapseSpaces(combination)
        sequence == split(collapsed, " ")
        info == getKeyInfo(S1, collapsed, action)
        S2 == IF action = Undefined
              THEN [S1 EXCEPT !._REVERSE_MAP = getReverseMap(S1)] ELSE S1
        S3 == IF info.key \in DOMAIN S2._callbacks THEN S2
              ELSE [S2 EXCEPT !._callbacks = Put(@, info.key, <<>>)]
        kept == getMatches(S3, info.key, info.modifiers,
                           [EmptyEvent EXCEPT !.type = info.action],
                           sequenceName, collapsed, level).list
        entry == [callback |-> callback, modifiers |-> info.modifiers,
                  action |-> info.action, seq |-> sequenceName,
                  level |-> level, combo |-> collapsed]
    IN  IF Len(sequence) > 1
        THEN bindSequenceLoop(
                 [S1 EXCEPT !._sequenceLevels = Put(@, collapsed, 0)],
                 collapsed, sequence, callback, action, 1)
        ELSE [S3 EXCEPT !._callbacks[info.key] = addEntry(kept, entry, sequenceName)]

\* The loop of #bindSequence (lines 424-428) from key i on (1-based; the
\* level bound is i - 1).  callback is the host function of the bind call.
bindSequenceLoop(S, combo, keys, callback, action, i) ==
    IF i > Len(keys) THEN S
    ELSE
      LET isFinal == i = Len(keys)
          nextAction == IF action # Undefined THEN action
                        ELSE getKeyInfo(S, keys[i + 1], Undefined).action
          S1 == IF ~isFinal /\ action = Undefined
                THEN [S EXCEPT !._REVERSE_MAP = getReverseMap(S)] ELSE S
          wrappedCallback ==
              IF isFinal THEN CallbackAndReset(combo, callback.fn, action)
              ELSE IncreaseSequence(combo, nextAction)
      IN  bindSequenceLoop(
              bindSingle(S1, keys[i], wrappedCallback, action, combo, i - 1),
              combo, keys, callback, action, i + 1)

\* bind(keys, callback, action) for one combo text.
bind(S, keys, fn, action) ==
    bindSingle(S, keys, UserFn(fn), action, NoText, NoLevel)

\* unbind(keys, action): bind with the empty function.
unbind(S, keys, action) == bind(S, keys, "noop", action)

\* trigger(keys, action): the direct-map callback is called with ({}, keys),
\* not through _fireCallback.
trigger(S, keys, action) ==
    IF <<keys, action>> \in DOMAIN S._directMap
    THEN invoke(S, S._directMap[<<keys, action>>], EmptyEvent, keys)
    ELSE S

\* reset()
reset(S) == [S EXCEPT !._callbacks = <<>>, !._directMap = <<>>]

\* Mousetrap.addKeycodes(object)
addKeycodes(S, object) ==
    LET merged == [c \in DOMAIN S._MAP \cup DOMAIN object |->
                      IF c \in DOMAIN object THEN object[c] ELSE S._MAP[c]]
    IN  [S EXCEPT !._MAP = merged,
                  !._REVERSE_MAP = [isNull |-> TRUE, table |-> <<>>]]

pause(S) == [S EXCEPT !.mouseTrapEnabled = FALSE]

unpause(S) == [S EXCEPT !.mouseTrapEnabled = TRUE]

\* The pending timeouts run.  The only handler ever scheduled is undefined
\* (line 412), which does nothing.
runTimers(S) == [S EXCEPT !.timers = {}]

(***************************************************************************)
(* The state machine                                                       *)
(***************************************************************************)

\* Bound on the number of API calls (bind, unbind, trigger, reset, pause,
\* unpause, addKeycodes) in one run; events and timers are not bounded.
MaxCalls == 3

KeyEvent(type, which, held, target) ==
    [type |-> type, which |-> which, shiftKey |-> "shift" \in held,
     altKey |-> "alt" \in held, ctrlKey |-> "ctrl" \in held,
     metaKey |-> "meta" \in held, target |-> target]

KeyPress(which) == KeyEvent("keypress", which, {}, "plain")

\* Host pages.  texts: the combo texts the page binds, unbinds and triggers;
\* fns: its callbacks; actions: the action arguments it passes; events: the
\* key events its keyboard sends; keycodes: the tables it passes to
\* addKeycodes; mac: the outcome of the navigator.platform test.
HostGI ==
    [texts |-> {<<"g", " ", "i">>, <<"g", " ", "t">>, <<"i">>},
     fns |-> {"f", "g"},
     actions |-> {Undefined},
     events |-> {KeyPress(w) : w \in {103, 105, 116, 120}},
     keycodes |-> {<<>>},
     mac |-> FALSE]

HostAB ==
    [texts |-> {<<"a", " ", "b">>, <<"b">>, <<"b", " ", "c">>},
     fns |-> {"f", "g"},
     actions |-> {Undefined},
     events |-> {KeyPress(w) : w \in {97, 98, 99}},
     keycodes |-> {<<>>},
     mac |-> FALSE]

HostCtrl ==
    [texts |-> {<<"ctrl", "+", "s">>, <<"ctrl", "+", "b", " ", "a">>},
     fns |-> {"f", "g"},
     actions |-> {Undefined},
     events |-> {KeyEvent("keydown", 83, {"ctrl"}, "plain"),
                 KeyEvent("keydown", 83, {}, "plain"),
                 KeyEvent("keydown", 83, {"ctrl", "shift"}, "plain"),
                 KeyEvent("keydown", 83, {"ctrl"}, "editable"),
                 KeyEvent("keydown", 66, {"ctrl"}, "plain"),
                 KeyPress(98), KeyPress(97)},
     keycodes |-> {<<>>},
     mac |-> FALSE]

HostEnter ==
    [texts |-> {<<"enter">>, <<"a">>},
     fns |-> {"f", "g"},
     actions |-> {Undefined},
     events |-> {KeyEvent("keydown", 13, {}, "plain"), KeyPress(13),
                 KeyEvent("keydown", 65, {}, "plain"), KeyPress(97)},
     keycodes |-> {<<>>},
     mac |-> FALSE]

HostUp ==
    [texts |-> {<<"g", " ", "i">>, <<"i">>},
     fns |-> {"f"},
     actions |-> {Undefined, "keyup"},
     events |-> {KeyPress(103), KeyPress(105),
                 KeyEvent("keyup", 71, {}, "plain"),
                 KeyEvent("keyup", 73, {}, "plain")},
     keycodes |-> {<<>>},
     mac |-> FALSE]

HostPress ==
    [texts |-> {<<"ctrl", "+", "s">>, <<"shift", "+", "alt", "+", "s">>, <<"s">>},
     fns |-> {"f"},
     actions |-> {Undefined, "keypress", "keydown"},
     events |-> {KeyEvent("keydown", 83, {"ctrl"}, "plain"),
                 KeyEvent("keydown", 83, {"shift", "alt"}, "plain"),
                 KeyEvent("keypress", 115, {"ctrl"}, "plain"),
                 KeyPress(115)},
     keycodes |-> {<<>>},
     mac |-> FALSE]

HostMod ==
    [texts |-> {<<"mod", "+", "ctrl", "+", "s">>, <<"shift", "+", "?">>,
                <<"ctrl", "+", "s">>},
     fns |-> {"f"},
     actions |-> {Undefined, "keydown"},
     events |-> {KeyEvent("keydown", 83, {"ctrl"}, "plain"),
                 KeyEvent("keydown", 191, {"shift"}, "plain"),
                 KeyEvent("keydown", 83, {}, "plain"),
                 KeyEvent("keydown", 191, {}, "plain")},
     keycodes |-> {<<>>},
     mac |-> FALSE]

Hosts ==
    [GI |-> HostGI, AB |-> HostAB, Ctrl |-> HostCtrl, Enter |-> HostEnter,
     Up |-> HostUp, Press |-> HostPress, Mod |-> HostMod]

Host == Hosts[host]

\* The state as a record, the observers of the last step cleared.
Cur ==
    [_callbacks |-> _callbacks, _directMap |-> _directMap,
     _sequenceLevels |-> _sequenceLevels,
     _nextExpectedAction |-> _nextExpectedAction,
     _ignoreNextKeyup |-> _ignoreNextKeyup,
     _ignoreNextKeypress |-> _ignoreNextKeypress,
     mouseTrapEnabled |-> mouseTrapEnabled, _MAP |-> _MAP,
     _REVERSE_MAP |-> _REVERSE_MAP, timers |-> timers, mac |-> Host.mac,
     fired |-> <<>>, threw |-> FALSE]

Become(S) ==
    /\ _callbacks' = S._callbacks
    /\ _directMap' = S._directMap
    /\ _sequenceLevels' = S._sequenceLevels
    /\ _nextExpectedAction' = S._nextExpectedAction
    /\ _ignoreNextKeyup' = S._ignoreNextKeyup
    /\ _ignoreNextKeypress' = S._ignoreNextKeypress
    /\ mouseTrapEnabled' = S.mouseTrapEnabled
    /\ _MAP' = S._MAP
    /\ _REVERSE_MAP' = S._REVERSE_MAP
    /\ timers' = S.timers
    /\ fired' = S.fired
    /\ threw' = S.threw
    /\ UNCHANGED host

Call(op, keys, fn, action) ==
    [op |-> op, keys |-> keys, fn |-> fn, action |-> action, e |-> EmptyEvent]

\* An API call: it is counted, and it is the last step.
ApiCall(call) ==
    /\ calls < MaxCalls
    /\ calls' = calls + 1
    /\ last' = [call EXCEPT !.e = EmptyEvent]
    /\ everBound' = IF call.op = "bind"
                    THEN everBound \cup {<<call.keys, call.fn, call.action>>}
                    ELSE everBound

\* The state after the class is loaded (lines 45, 650) and an instance is
\* constructed (lines 75, 153-175).
InitWith(h) ==
    /\ host = h
    /\ _callbacks = <<>>
    /\ _directMap = <<>>
    /\ _sequenceLevels = <<>>
    /\ _nextExpectedAction = JsFalse
    /\ _ignoreNextKeyup = JsFalse
    /\ _ignoreNextKeypress = FALSE
    /\ mouseTrapEnabled = TRUE
    /\ _MAP = staticConstructor(MapLiteral)
    /\ _REVERSE_MAP = [isNull |-> FALSE, table |-> <<>>]
    /\ timers = {}
    /\ fired = <<>>
    /\ threw = FALSE
    /\ last = Call("new", NoText, Undefined, Undefined)
    /\ calls = 0
    /\ everBound = {}

Bind ==
    \E keys \in Host.texts, fn \in Host.fns, action \in Host.actions :
        /\ ApiCall(Call("bind", keys, fn, action))
        /\ Become(bind(Cur, keys, fn, action))

Unbind ==
    \E keys \in Host.texts, action \in Host.actions :
        /\ ApiCall(Call("unbind", keys, "noop", action))
        /\ Become(unbind(Cur, keys, action))

Trigger ==
    \E keys \in Host.texts, action \in Host.actions :
        /\ ApiCall(Call("trigger", keys, Undefined, action))
        /\ Become(trigger(Cur, keys, action))

Reset ==
    /\ ApiCall(Call("reset", NoText, Undefined, Undefined))
    /\ Become(reset(Cur))

Pause ==
    /\ ApiCall(Call("pause", NoText, Undefined, Undefined))
    /\ Become(pause(Cur))

Unpause ==
    /\ ApiCall(Call("unpause", NoText, Undefined, Undefined))
    /\ Become(unpause(Cur))

AddKeycodes ==
    \E object \in Host.keycodes :
        /\ ApiCall(Call("addKeycodes", NoText, Undefined, Undefined))
        /\ Become(addKeycodes(Cur, object))

\* The browser delivers a key event to #handleKeyEvent.
Dispatch ==
    \E e \in Host.events :
        /\ Become(handleKeyEvent(Cur, e))
        /\ last' = [Call("dispatch", NoText, Undefined, Undefined) EXCEPT !.e = e]
        /\ UNCHANGED <<calls, everBound>>

\* Time passes: every pending timeout runs.
Timeout ==
    /\ Become(runTimers(Cur))
    /\ last' = Call("timeout", NoText, Undefined, Undefined)
    /\ UNCHANGED <<calls, everBound>>

Next ==
    \/ Bind
    \/ Unbind
    \/ Trigger
    \/ Reset
    \/ Pause
    \/ Unpause
    \/ AddKeycodes
    \/ Dispatch
    \/ Timeout

Init == InitWith("GI")

Spec == Init /\ [][Next]_vars

InitAB == InitWith("AB")

SpecAB == InitAB /\ [][Next]_vars

InitCtrl == InitWith("Ctrl")

SpecCtrl == InitCtrl /\ [][Next]_vars

InitEnter == InitWith("Enter")

SpecEnter == InitEnter /\ [][Next]_vars

InitUp == InitWith("Up")

SpecUp == InitUp /\ [][Next]_vars

InitPress == InitWith("Press")

SpecPress == InitPress /\ [][Next]_vars

InitMod == InitWith("Mod")

SpecMod == InitMod /\ [][Next]_vars

(***************************************************************************)
(* Vocabulary of the properties                                            *)
(***************************************************************************)

\* S with the observers of the last step cleared: the state a step starts in.
Fresh(S) == [S EXCEPT !.fired = <<>>, !.threw = FALSE]

\* The state after the browser delivers e in state S.
Dispatched(S, e) == handleKeyEvent(Fresh(S), e)

\* The state after every pending timeout of S has run.
Elapsed(S) == runTimers(Fresh(S))

\* How often the step that ended in S invoked a host callback with combo.
Invocations(S, combo) ==
    Cardinality({i \in 1..Len(S.fired) : S.fired[i].combo = combo})

IsSequenceLabel(combo) == \E i \in 1..Len(combo) : combo[i] = " "

SequenceLabels(S) == DOMAIN S._sequenceLevels

\* The bindings of the registry, each with its key and its place in the list.
Entries(S) ==
    UNION {{[key |-> k, at |-> i, b |-> S._callbacks[k][i]] :
                i \in 1..Len(S._callbacks[k])} : k \in DOMAIN S._callbacks}

\* The registry holds a link for every level of the sequence label, and the
\* direct index holds a host function (not the empty one) for it.
SequenceBound(S, label) ==
    /\ label \in SequenceLabels(S)
    /\ \A j \in 0..(Len(split(label, " ")) - 1) :
           \E x \in Entries(S) : x.b.seq = label /\ x.b.level = j
    /\ <<label, Undefined>> \in DOMAIN S._directMap
    /\ S._directMap[<<label, Undefined>>].kind = "fn"
    /\ S._directMap[<<label, Undefined>>].fn # "noop"

\* The registry holds a plain binding of a host function for the combo.
PlainBound(S, combo) ==
    \E x \in Entries(S) :
        x.b.seq = NoText /\ x.b.combo = combo /\ x.b.callback.fn # "noop"

AllAtLevelZero(S) == \A s \in SequenceLabels(S) : S._sequenceLevels[s] = 0

\* C1: with "g i" and "g t" both bound, nothing else a sequence, and all
\* progress at level 0, dispatching g then i invokes the "g i" callback
\* exactly once and the "g t" callback not at all, and dispatching g then t
\* invokes the "g t" callback exactly once and the "g i" callback not at all.
C1_SharedPrefix ==
    LET gi == <<"g", " ", "i">>
        gt == <<"g", " ", "t">>
        afterG == Dispatched(Cur, KeyPress(103))
        afterGI == Dispatched(afterG, KeyPress(105))
        afterGT == Dispatched(afterG, KeyPress(116))
    IN  (/\ host = "GI"
         /\ mouseTrapEnabled
         /\ SequenceLabels(Cur) = {gi, gt}
         /\ SequenceBound(Cur, gi)
         /\ SequenceBound(Cur, gt)
         /\ AllAtLevelZero(Cur))
        => /\ Invocations(afterG, gi) + Invocations(afterGI, gi) = 1
           /\ Invocations(afterG, gt) + Invocations(afterGI, gt) = 0
           /\ Invocations(afterG, gt) + Invocations(afterGT, gt) = 1
           /\ Invocations(afterG, gi) + Invocations(afterGT, gi) = 0

\* C2: a sequence callback is invoked only by an event that arrives when the
\* keys before the last one have been matched (the level is n-1), and one
\* completed run of the keys invokes it at most once: the event that
\* completed the run, sent again after the timers have run, is not preceded
\* by the keys before it and does not invoke the callback again.
C2_OncePerRun ==
    \A e \in Host.events :
        LET once == Dispatched(Cur, e)
            twice == Dispatched(Elapsed(once), e)
        IN  \A s \in SequenceLabels(Cur) :
                Invocations(once, s) > 0 =>
                    /\ Cur._sequenceLevels[s] = Len(split(s, " ")) - 1
                    /\ Invocations(once, s) = 1
                    /\ Invocations(twice, s) = 0

\* C4: with "a b" and the plain "b" bound and no other sequence, after a is
\* dispatched and the inactivity timeout has elapsed the level of "a b" is 0
\* again, and a dispatch of b then invokes the plain "b" callback only.
C4_TimeoutResets ==
    LET ab == <<"a", " ", "b">>
        afterA == Dispatched(Cur, KeyPress(97))
        later == Elapsed(afterA)
        afterB == Dispatched(later, KeyPress(98))
    IN  (/\ host = "AB"
         /\ mouseTrapEnabled
         /\ SequenceLabels(Cur) = {ab}
         /\ SequenceBound(Cur, ab)
         /\ PlainBound(Cur, <<"b">>)
         /\ AllAtLevelZero(Cur))
        => /\ later._sequenceLevels[ab] = 0
           /\ Invocations(afterB, <<"b">>) = 1
           /\ Invocations(afterB, ab) = 0

\* C6: the registry never holds two plain bindings with the same label and
\* the same action, and once (c, g, a) has been bound a dispatched event
\* invokes no other function under the label c.
C6_LastBindWins ==
    /\ \A x, y \in Entries(Cur) :
           (/\ x.b.seq = NoText
            /\ y.b.seq = NoText
            /\ x.b.combo = y.b.combo
            /\ x.b.action = y.b.action) => x = y
    /\ (last.op = "bind" /\ ~IsSequenceLabel(last.keys)) =>
           \A e \in Host.events :
               LET after == Dispatched(Cur, e)
               IN  \A i \in 1..Len(after.fired) :
                       after.fired[i].combo = last.keys =>
                           after.fired[i].fn = last.fn

\* C8: after reset the registry and the direct index are empty, every
\* sequence is at level 0 and no next action is expected.
C8_ResetClearsAll ==
    last.op = "reset" =>
        /\ _callbacks = <<>>
        /\ _directMap = <<>>
        /\ \A s \in DOMAIN _sequenceLevels : _sequenceLevels[s] = 0
        /\ _nextExpectedAction = JsFalse

\* C9: after unbind(c, a) of a combo that was bound to f, the direct index
\* holds the empty function for (c, a), a trigger of (c, a) invokes nothing
\* and no dispatched event invokes a function under the label c.
C9_UnbindSilences ==
    (/\ last.op = "unbind"
     /\ \E b \in everBound : b[1] = last.keys /\ b[3] = last.action)
    => /\ <<last.keys, last.action>> \in DOMAIN _directMap
       /\ _directMap[<<last.keys, last.action>>].kind = "fn"
       /\ _directMap[<<last.keys, last.action>>].fn = "noop"
       /\ trigger(Cur, last.keys, last.action).fired = <<>>
       /\ \A e \in Host.events :
              Invocations(Dispatched(Cur, e), collapseSpaces(last.keys)) = 0

\* The event matches a sequence binding of the registry at the level its
\* sequence has reached: the key, the action and the modifiers fit.
MatchesSequence(S, e) ==
    \E x \in Entries(S) :
        /\ x.key = characterFromEvent(S, e)
        /\ x.b.seq # NoText
        /\ S._sequenceLevels[x.b.seq] = x.b.level
        /\ x.b.action = e.type
        /\ \/ e.type = "keypress" /\ ~e.metaKey /\ ~e.ctrlKey
           \/ eventModifiers(e) = x.b.modifiers

SequenceInvoked(S) == \E i \in 1..Len(S.fired) : IsSequenceLabel(S.fired[i].combo)

\* The case of the reset rule: a sequence is in progress, the event's action
\* is the expected one, its key is no modifier, it matches no sequence.
ResetCase(S, e) ==
    /\ \E s \in SequenceLabels(S) : S._sequenceLevels[s] > 0
    /\ e.type = S._nextExpectedAction
    /\ ~isModifier(characterFromEvent(S, e))
    /\ ~MatchesSequence(S, e)

\* The event is looked at by the reset rule: it is neither a key-press
\* arriving while the key-press after a key-down is to be ignored, nor the
\* key-up that is dropped after a completed sequence.
NotIgnored(S, e) ==
    /\ ~(e.type = "keypress" /\ S._ignoreNextKeypress)
    /\ ~(e.type = "keyup" /\ S._ignoreNextKeyup = characterFromEvent(S, e))

WasReset(S) ==
    /\ AllAtLevelZero(S)
    /\ S._nextExpectedAction = JsFalse
    /\ ~SequenceInvoked(S)

C5_ModifiersHeldExactly ==
    \A x \in Entries(Cur) : \A e \in Host.events :
        (/\ x.b.seq = NoText
         /\ x.b.callback.fn # "noop"
         /\ BagToSet(x.b.modifiers) # {}
         /\ x.b.action = "keydown"
         /\ e.type = "keydown"
         /\ characterFromEvent(Cur, e) = x.key
         /\ mouseTrapEnabled
         /\ e.target # "editable"
         /\ ~MatchesSequence(Cur, e))
        => Invocations(Dispatched(Cur, e), x.b.combo) =
               IF BagToSet(eventModifiers(e)) = BagToSet(x.b.modifiers)
               THEN 1 ELSE 0

\* ctrl+s has been pressed and the "ctrl+s" callback alone was invoked.
C5_Witness ==
    /\ last.op = "dispatch"
    /\ last.e = KeyEvent("keydown", 83, {"ctrl"}, "plain")
    /\ Len(fired) = 1
    /\ fired[1].combo = <<"ctrl", "+", "s">>

\* C7: after bind(c, f, a) and then bind(c, g, a), trigger(c, a) invokes g
\* exactly once and invokes nothing else.
C7_TriggerAfterRebind ==
    (/\ last.op = "bind"
     /\ \E b \in everBound :
            b[1] = last.keys /\ b[3] = last.action /\ b[2] # last.fn)
    => LET after == trigger(Cur, last.keys, last.action)
       IN  /\ Len(after.fired) = 1
           /\ after.fired[1].fn = last.fn

\* A combo bound twice, to two functions, has been triggered and the one
\* invocation was of the function bound last.
C7_Witness ==
    /\ last.op = "trigger"
    /\ Len(fired) = 1
    /\ <<last.keys, fired[1].fn, last.action>> \in everBound
    /\ \E b \in everBound :
           b[1] = last.keys /\ b[3] = last.action /\ b[2] # fired[1].fn
    /\ _directMap[<<last.keys, last.action>>].fn = fired[1].fn

\* C10: a dispatch while the engine is paused invokes no callback: no host
\* function is called, no sequence advances (no level grows, nothing is
\* thrown) and no sequence completes (no timeout is scheduled).
C10_PausedFiresNothing ==
    [][(~mouseTrapEnabled /\ last'.op = "dispatch") =>
           /\ fired' = <<>>
           /\ ~threw'
           /\ timers' = timers
           /\ \A s \in DOMAIN _sequenceLevels :
                  _sequenceLevels'[s] <= _sequenceLevels[s]]_vars

\* A paused engine has received an event that matches a binding.
C10_Witness ==
    /\ ~mouseTrapEnabled
    /\ last.op = "dispatch"
    /\ \E x \in Entries(Cur) :
           /\ x.key = characterFromEvent(Cur, last.e)
           /\ x.b.action = last.e.type
           /\ x.b.seq = NoText \/ _sequenceLevels[x.b.seq] = x.b.level

\* C11: a dispatch between pause() and unpause() leaves the registry, every
\* sequence level, the expected next action, the suppressed key-up and the
\* ignore-next-key-press flag as they were, so that after unpause() they
\* equal their values just before pause().
C11_PausedDispatchIsInert ==
    [][(~mouseTrapEnabled /\ last'.op = "dispatch") =>
           UNCHANGED <<_callbacks, _sequenceLevels, _nextExpectedAction,
                       _ignoreNextKeyup, _ignoreNextKeypress>>]_vars

\* The key is named by the table of non-printable keys, the numeric keypad
\* left aside (a key-press reports its digits).
NonPrintable(S, key) ==
    \E c \in DOMAIN S._MAP : S._MAP[c] = key /\ ~(c > 95 /\ c < 112)

\* C12: a binding made with no action and no modifier is stored under
\* key-down when its key is a non-printable one and under key-press
\* otherwise, whether or not addKeycodes has been called; a binding of
\* "enter" is invoked by the key-down event of key code 13.
C12_ActionInference ==
    \A x \in Entries(Cur) :
        (x.b.seq = NoText /\ x.b.modifiers = EmptyBag) =>
            /\ x.b.action = IF NonPrintable(Cur, x.key) THEN "keydown"
                            ELSE "keypress"
            /\ (x.key = "enter" /\ x.b.callback.fn # "noop" /\ mouseTrapEnabled) =>
                   Invocations(Dispatched(Cur, KeyEvent("keydown", 13, {}, "plain")),
                               <<"enter">>) = 1

\* C13: when a dispatch has invoked the callback of a sequence, a deferred
\* reset is pending, and once the pending timeouts have run, with no input
\* in between, every sequence is at level 0 and no next action is expected.
C13_DeferredReset ==
    \A e \in Host.events :
        LET after == Dispatched(Cur, e)
            later == Elapsed(after)
        IN  SequenceInvoked(after) =>
                /\ after.timers # {}
                /\ later.timers = {}
                /\ AllAtLevelZero(later)
                /\ later._nextExpectedAction = JsFalse

\* The sequence links of the registry the event matches: the key, the
\* action and the modifiers fit and the sequence stands at the link's level.
SequenceMatches(S, e) ==
    {x \in Entries(S) :
        /\ x.key = characterFromEvent(S, e)
        /\ x.b.seq # NoText
        /\ S._sequenceLevels[x.b.seq] = x.b.level
        /\ x.b.action = e.type
        /\ \/ e.type = "keypress" /\ ~e.metaKey /\ ~e.ctrlKey
           \/ eventModifiers(e) = x.b.modifiers}

\* C14: of the sequence links an event matches, one whose level is below
\* the highest level among them is not invoked and its sequence does not
\* advance; with "a b" at level 1 and "b c" at level 0, b completes "a b"
\* and does not start "b c".
C14_TieBreak ==
    /\ \A e \in Host.events :
           LET after == Dispatched(Cur, e)
           IN  \A x, y \in SequenceMatches(Cur, e) :
                   x.b.level < y.b.level =>
                       /\ after._sequenceLevels[x.b.seq] <= _sequenceLevels[x.b.seq]
                       /\ Invocations(after, x.b.seq) = 0
    /\ LET ab == <<"a", " ", "b">>
           bc == <<"b", " ", "c">>
           after == Dispatched(Cur, KeyPress(98))
       IN  (/\ host = "AB"
            /\ mouseTrapEnabled
            /\ SequenceBound(Cur, ab)
            /\ SequenceBound(Cur, bc)
            /\ _sequenceLevels[ab] = 1
            /\ _sequenceLevels[bc] = 0)
           => /\ Invocations(after, ab) = 1
              /\ after._sequenceLevels[bc] = 0

\* "a b" stands at level 1, "b c" at level 0, and b matches a link of each.
C14_Witness ==
    /\ host = "AB"
    /\ mouseTrapEnabled
    /\ SequenceBound(Cur, <<"a", " ", "b">>)
    /\ SequenceBound(Cur, <<"b", " ", "c">>)
    /\ _sequenceLevels[<<"a", " ", "b">>] = 1
    /\ _sequenceLevels[<<"b", " ", "c">>] = 0
    /\ \E x, y \in SequenceMatches(Cur, KeyPress(98)) : x.b.level < y.b.level

\* The plain bindings of the registry the event matches.
PlainMatches(S, e) ==
    {x \in Entries(S) :
        /\ x.key = characterFromEvent(S, e)
        /\ x.b.seq = NoText
        /\ x.b.action = e.type
        /\ \/ e.type = "keypress" /\ ~e.metaKey /\ ~e.ctrlKey
           \/ eventModifiers(e) = x.b.modifiers}

\* C15: in every list of the registry the sequence links come before the
\* plain bindings, and an event that matches a sequence link invokes no
\* plain binding, in whatever order the combos and sequences were bound.
C15_PlainOnlyWithoutSequence ==
    /\ \A x, y \in Entries(Cur) :
           (x.key = y.key /\ x.b.seq = NoText /\ y.b.seq # NoText) => y.at < x.at
    /\ \A e \in Host.events :
           MatchesSequence(Cur, e) =>
               \A x \in PlainMatches(Cur, e) :
                   Invocations(Dispatched(Cur, e), x.b.combo) = 0

\* An event matches a sequence link and a plain binding of a host function.
C15_Witness ==
    /\ mouseTrapEnabled
    /\ \E e \in Host.events :
           /\ MatchesSequence(Cur, e)
           /\ \E x \in PlainMatches(Cur, e) : x.b.callback.fn # "noop"
           /\ Dispatched(Cur, e).fired = <<>>

\* The bindings the registry holds, wherever they stand.
Bodies(S) == {x.b : x \in Entries(S)}

\* The binding has the identity of a binding registered for the text with
\* the action: for a sequence text a link of that sequence, for a plain
\* text a plain binding with that label and the action it is stored under.
SameIdentity(S, b, keys, action) ==
    LET c == collapseSpaces(keys)
    IN  IF IsSequenceLabel(c) THEN b.seq = c
        ELSE /\ b.seq = NoText
             /\ b.combo = c
             /\ b.action = getKeyInfo(S, c, action).action

\* C16: a bind or an unbind removes from the registry only bindings with the
\* identity of the one registered; a plain bind or unbind removes no link
\* of a sequence and a bind of a sequence removes no plain binding.
C16_BindRemovesOnlySameIdentity ==
    [][last'.op \in {"bind", "unbind"} =>
           \A b \in Bodies(Cur) :
               \/ b \in Bodies(Cur)'
               \/ SameIdentity(Cur, b, last'.keys, last'.action)]_vars

\* C17: with "ctrl+b a" bound and at level 0, the key-down of ctrl+b brings
\* it to level 1, the key-press of b that follows leaves it there and a
\* key-press of a then invokes the callback; and after every dispatch the
\* ignore-next-key-press flag is true exactly when the event was a key-down
\* on which a sequence link was invoked.
C17_EchoKeypressIgnored ==
    /\ LET cba == <<"ctrl", "+", "b", " ", "a">>
           down == Dispatched(Cur, KeyEvent("keydown", 66, {"ctrl"}, "plain"))
           echo == Dispatched(down, KeyPress(98))
           done == Dispatched(echo, KeyPress(97))
       IN  (/\ host = "Ctrl"
            /\ mouseTrapEnabled
            /\ SequenceBound(Cur, cba)
            /\ AllAtLevelZero(Cur))
           => /\ down._sequenceLevels[cba] = 1
              /\ echo._sequenceLevels[cba] = 1
              /\ Invocations(done, cba) = 1
    /\ \A e \in Host.events :
           Dispatched(Cur, e)._ignoreNextKeypress =
               (/\ e.type = "keydown"
                /\ MatchesSequence(Cur, e)
                /\ mouseTrapEnabled
                /\ e.target # "editable")

\* C18: no operation ends with an error raised by the engine.
C18_NoEngineError == ~threw

\* The event is the key-up the engine is set to drop.
IsSuppressedKeyup(S, e) ==
    e.type = "keyup" /\ S._ignoreNextKeyup = characterFromEvent(S, e)

\* The event reaches the callbacks of the bindings it matches.
Reaches(S, e) ==
    S.mouseTrapEnabled /\ e.target # "editable" /\ ~IsSuppressedKeyup(S, e)

\* C19: an event that completes a sequence bound without the key-up action
\* arms the suppression with its key, and one that completes a sequence
\* bound with the key-up action arms nothing; the key-up of the suppressed
\* key is dropped (invokes nothing, changes no level) and clears the
\* suppression, so that the same key-up sent again invokes the plain
\* binding it matches; a key-up of another key leaves the suppression as it
\* is and is not dropped.
C19_SuppressNextUp ==
    \A e \in Host.events :
        LET after == Dispatched(Cur, e)
            again == Dispatched(after, e)
        IN  /\ \A x \in SequenceMatches(Cur, e) :
                   (/\ x.b.callback.kind = "complete"
                    /\ Invocations(after, x.b.seq) > 0) =>
                       after._ignoreNextKeyup =
                           IF x.b.callback.arg # "keyup"
                           THEN characterFromEvent(Cur, e)
                           ELSE _ignoreNextKeyup
            /\ IsSuppressedKeyup(Cur, e) =>
                   /\ after.fired = <<>>
                   /\ after._sequenceLevels = _sequenceLevels
                   /\ after._nextExpectedAction = _nextExpectedAction
                   /\ after._ignoreNextKeyup = JsFalse
                   /\ \A x \in PlainMatches(Cur, e) :
                          (/\ x.b.callback.fn # "noop"
                           /\ Reaches(after, e)
                           /\ ~MatchesSequence(after, e))
                          => Invocations(again, x.b.combo) >= 1
            /\ (e.type = "keyup" /\ ~IsSuppressedKeyup(Cur, e)) =>
                   /\ after._ignoreNextKeyup = _ignoreNextKeyup
                   /\ \A x \in PlainMatches(Cur, e) :
                          (/\ x.b.callback.fn # "noop"
                           /\ Reaches(Cur, e)
                           /\ ~MatchesSequence(Cur, e))
                          => Invocations(after, x.b.combo) >= 1

\* A sequence has completed on i, and the key-up of i, which a plain
\* binding of a host function matches, is dropped.
C19_Witness ==
    /\ mouseTrapEnabled
    /\ _ignoreNextKeyup = "i"
    /\ \E e \in Host.events :
           /\ IsSuppressedKeyup(Cur, e)
           /\ \E x \in PlainMatches(Cur, e) : x.b.callback.fn # "noop"
           /\ Dispatched(Cur, e).fired = <<>>
           /\ Dispatched(Dispatched(Cur, e), e).fired # <<>>

\* C20: no binding of the registry has the key-press action together with
\* a modifier; a plain combo with a modifier that has just been bound with
\* no action or with the key-press action is stored under key-down.
C20_NoKeypressWithModifiers ==
    /\ \A x \in Entries(Cur) :
           x.b.action = "keypress" => x.b.modifiers = EmptyBag
    /\ (/\ last.op = "bind"
        /\ last.action \in {Undefined, "keypress"}
        /\ ~IsSequenceLabel(last.keys)
        /\ \E t \in {"shift", "ctrl", "alt", "meta"} :
               \E i \in 1..Len(last.keys) : last.keys[i] = t)
       => \E x \in Entries(Cur) :
              /\ x.b.combo = last.keys
              /\ x.b.callback.fn = last.fn
              /\ x.b.modifiers # EmptyBag
              /\ x.b.action = "keydown"

\* A combo with a modifier has been bound with the key-press action given
\* and is stored under key-down.
C20_Witness ==
    /\ last.op = "bind"
    /\ last.action = "keypress"
    /\ \E x \in Entries(Cur) :
           /\ x.b.combo = last.keys
           /\ x.b.modifiers # EmptyBag
           /\ x.b.action = "keydown"

\* C21: every binding of the registry holds each modifier at most once, and
\* a plain key-down binding of a host function is invoked by a key-down event
\* for its key that holds exactly the modifiers the binding names (engine
\* running, target not suppressed, no sequence matched).
C21_ModifiersDeduplicated ==
    /\ \A x \in Entries(Cur) : \A m \in Modifiers :
           CopiesIn(m, x.b.modifiers) <= 1
    /\ \A x \in Entries(Cur) : \A e \in Host.events :
           (/\ x.b.seq = NoText
            /\ x.b.callback.fn # "noop"
            /\ x.b.action = "keydown"
            /\ e.type = "keydown"
            /\ characterFromEvent(Cur, e) = x.key
            /\ mouseTrapEnabled
            /\ e.target # "editable"
            /\ ~MatchesSequence(Cur, e)
            /\ BagToSet(eventModifiers(e)) = BagToSet(x.b.modifiers))
           => Invocations(Dispatched(Cur, e), x.b.combo) >= 1

\* The number of keys of a sequence label.
KeysOf(label) == Len(split(label, " "))

\* Every registered sequence of n keys is at a level in 0..n-1.
LevelsInRange(S) ==
    \A s \in SequenceLabels(S) : S._sequenceLevels[s] \in 0..(KeysOf(s) - 1)

\* C22: in every reachable state the level of each registered sequence of n
\* keys lies in 0..n-1, and no trigger step changes the level of a sequence.
C22_LevelsInRange ==
    /\ [](LevelsInRange(Cur))
    /\ [][last'.op = "trigger" => _sequenceLevels' = _sequenceLevels]_vars

\* C23: a step other than bind, unbind and reset, and a dispatch step in
\* particular, leaves the binding registry and the direct index as they are:
\* no entry is added, removed or moved.
C23_DispatchKeepsRegistry ==
    [][last'.op \notin {"bind", "unbind", "reset"} =>
           /\ _callbacks' = _callbacks
           /\ _directMap' = _directMap]_vars

\* An event has been dispatched that invoked a host callback, and the
\* binding it matched is still in the registry and in the direct index.
C23_Witness ==
    /\ last.op = "dispatch"
    /\ Len(fired) = 1
    /\ \E x \in Entries(Cur) :
           /\ x.key = characterFromEvent(Cur, last.e)
           /\ x.b.action = last.e.type
           /\ fired[1].combo \in {x.b.combo, x.b.seq}
    /\ \E a \in Host.actions : <<fired[1].combo, a>> \in DOMAIN _directMap

\* C24: a bind or unbind step for a combo text writes the direct index only
\* under that text: every other key of the direct index was there before the
\* step and holds the callback it held.
C24_BindWritesOwnTextOnly ==
    [][last'.op \in {"bind", "unbind"} =>
           \A k \in DOMAIN _directMap' :
               k[1] # last'.keys =>
                   /\ k \in DOMAIN _directMap
                   /\ _directMap'[k] = _directMap[k]]_vars

====
